---- MODULE Spec2Model ----
(***************************************************************************)
(* SIWE (EIP-4361) message validator: parser, line-break validator and     *)
(* targeted field replacer.                                                *)
(*                                                                         *)
(* A text is a sequence of tokens.  A token stands for a fixed piece of    *)
(* text: "nl" is a line feed, "sp" one space, "WANTS" the words            *)
(* "wants you to sign in with your Ethereum account:", "URI:" the four     *)
(* characters URI and colon (so the prefix 'URI: ' is <<"URI:", "sp">>),   *)
(* "hex40" forty hexadecimal digits, and so on.  split, join, trim,        *)
(* startsWith and includes are computed on the token sequence.             *)
(***************************************************************************)
EXTENDS Integers, Sequences, FiniteSets, TLC

VARIABLES
  message,   \* the message text the caller holds
  original,  \* the text handed to the last call that returned a text
  ops,       \* the calls made so far, in order
  error,     \* the diagnostic handed to the last applyFieldFix
  threw,     \* whether the last call threw
  errors,    \* the diagnostics the last validateLineBreaks or parse returned
  fields,    \* the field map the last parse returned
  given,     \* the field map handed to generateMessage
  target,    \* the field name handed to the last replaceField
  ui         \* the state of the SiweValidator component

vars == <<message, original, ops, error, threw, errors, fields, given, target, ui>>

----------------------------------------------------------------------------
(* Bounds of the explored inputs *)

\* longest free-form message (in lines) drawn exhaustively from LineKinds
MaxLines == 3

\* most blank lines put into one gap of a templated message
MaxGap == 3

----------------------------------------------------------------------------
(* String primitives of the JavaScript runtime, on token sequences *)

NL == "nl"
SP == "sp"

IsSpace(c) == c = SP

RECURSIVE TrimRight(_)
TrimRight(s) ==
  IF s = <<>> THEN s
  ELSE IF IsSpace(s[Len(s)]) THEN TrimRight(SubSeq(s, 1, Len(s) - 1))
  ELSE s

RECURSIVE TrimLeft(_)
TrimLeft(s) ==
  IF s = <<>> THEN s
  ELSE IF IsSpace(s[1]) THEN TrimLeft(Tail(s))
  ELSE s

Trim(s) == TrimLeft(TrimRight(s))

StartsWith(s, p) == Len(s) >= Len(p) /\ SubSeq(s, 1, Len(p)) = p

Includes(s, sub) ==
  \E i \in 1..(Len(s) - Len(sub) + 1) : SubSeq(s, i, i + Len(sub) - 1) = sub

Substring(s, k) == SubSeq(s, k + 1, Len(s))

RECURSIVE Split(_)
Split(text) ==
  IF \A k \in 1..Len(text) : text[k] # NL THEN <<text>>
  ELSE LET k == CHOOSE j \in 1..Len(text) :
                  text[j] = NL /\ \A h \in 1..(j - 1) : text[h] # NL
       IN  <<SubSeq(text, 1, k - 1)>> \o Split(SubSeq(text, k + 1, Len(text)))

RECURSIVE JoinLines(_)
JoinLines(lines) ==
  IF lines = <<>> THEN <<>>
  ELSE IF Len(lines) = 1 THEN lines[1]
  ELSE lines[1] \o <<NL>> \o JoinLines(Tail(lines))

\* s.replace(/[\r\n]+/g, ' ') : every run of line breaks becomes one space
RECURSIVE CollapseLineBreaks(_)
CollapseLineBreaks(s) ==
  IF s = <<>> THEN s
  ELSE IF s[1] = NL
       THEN IF Len(s) > 1 /\ s[2] = NL THEN CollapseLineBreaks(Tail(s))
            ELSE <<SP>> \o CollapseLineBreaks(Tail(s))
       ELSE <<s[1]>> \o CollapseLineBreaks(Tail(s))

----------------------------------------------------------------------------
(* Fixed texts of the grammar *)

HeaderSuffix == <<SP, "WANTS">>

PrefixURI == <<"URI:", SP>>
PrefixVersion == <<"Version:", SP>>
PrefixChainId == <<"Chain ID:", SP>>
PrefixNonce == <<"Nonce:", SP>>
PrefixIssuedAt == <<"Issued At:", SP>>
PrefixExpirationTime == <<"Expiration Time:", SP>>
PrefixNotBefore == <<"Not Before:", SP>>
PrefixRequestId == <<"Request ID:", SP>>
ResourcesLine == <<"Resources:">>
PrefixResource == <<"-", SP>>

\* /^(0x)?[a-fA-F0-9]{40}$/
AddressPattern(s) == s \in {<<"hex40">>, <<"0x", "hex40">>, <<"HEX40ck">>, <<"0x", "HEX40ck">>}

----------------------------------------------------------------------------
(* SiweMessageParser (parser.ts) *)

FieldNames ==
  {"domain", "address", "statement", "uri", "version", "chainId", "nonce",
   "issuedAt", "expirationTime", "notBefore", "requestId", "resources"}

REQUIRED_FIELDS ==
  <<"domain", "address", "uri", "version", "chainId", "nonce", "issuedAt">>

\* a field map with no field set
NoFields == [x \in {} |-> <<>>]

\* field.toUpperCase() for the names the required-field loop uses
ToUpperCase(field) ==
  CASE field = "uri" -> "URI"
    [] field = "version" -> "VERSION"
    [] field = "chainId" -> "CHAINID"
    [] field = "nonce" -> "NONCE"
    [] field = "issuedAt" -> "ISSUEDAT"

MissingCode(field) ==
  CASE ToUpperCase(field) = "URI" -> "MISSING_URI"
    [] ToUpperCase(field) = "VERSION" -> "MISSING_VERSION"
    [] ToUpperCase(field) = "CHAINID" -> "MISSING_CHAINID"
    [] ToUpperCase(field) = "NONCE" -> "MISSING_NONCE"
    [] ToUpperCase(field) = "ISSUEDAT" -> "MISSING_ISSUEDAT"

createParseError(field, line, code) ==
  [type |-> "format", field |-> field, line |-> line, column |-> 1,
   severity |-> "error", fixable |-> FALSE, code |-> code]

\* /^(.+) wants you to sign in with your Ethereum account:$/
HeaderMatch(line) ==
  /\ Len(line) >= 3
  /\ SubSeq(line, Len(line) - 1, Len(line)) = HeaderSuffix

HeaderDomain(line) == SubSeq(line, 1, Len(line) - 2)

fieldParsers ==
  << [prefix |-> PrefixURI, field |-> "uri"],
     [prefix |-> PrefixVersion, field |-> "version"],
     [prefix |-> PrefixChainId, field |-> "chainId"],
     [prefix |-> PrefixNonce, field |-> "nonce"],
     [prefix |-> PrefixIssuedAt, field |-> "issuedAt"] >>

optionalFields ==
  << [prefix |-> PrefixExpirationTime, field |-> "expirationTime"],
     [prefix |-> PrefixNotBefore, field |-> "notBefore"],
     [prefix |-> PrefixRequestId, field |-> "requestId"] >>

\* The loop over fieldParsers, were a miss to move the cursor past the line
\* it tested.
RECURSIVE ParseRequiredFieldsAdvancing(_, _, _)
ParseRequiredFieldsAdvancing(lines, k, st) ==
  IF k > Len(fieldParsers) THEN st
  ELSE LET p == fieldParsers[k]
           hit == st.i < Len(lines) /\ StartsWith(lines[st.i + 1], p.prefix)
       IN  ParseRequiredFieldsAdvancing(lines, k + 1,
             IF hit
             THEN [i |-> st.i + 1,
                   f |-> st.f @@ (p.field :> Substring(lines[st.i + 1], Len(p.prefix))),
                   e |-> st.e,
                   at |-> st.at @@ (p.field :> st.i)]
             ELSE [i |-> st.i + 1,
                   f |-> st.f,
                   e |-> Append(st.e, createParseError(p.field, st.i + 1,
                                                       MissingCode(p.field))),
                   at |-> st.at])

\* The loop over fieldParsers, from its k-th turn on, on the parser state st
\* (see ParseHeader).
RECURSIVE ParseRequiredFields(_, _, _)
ParseRequiredFields(lines, k, st) ==
  IF k > Len(fieldParsers) THEN st
  ELSE LET p == fieldParsers[k]
           hit == st.i < Len(lines) /\ StartsWith(lines[st.i + 1], p.prefix)
       IN  ParseRequiredFields(lines, k + 1,
             IF hit
             THEN [i |-> st.i + 1,
                   f |-> st.f @@ (p.field :> Substring(lines[st.i + 1], Len(p.prefix))),
                   e |-> st.e,
                   at |-> st.at @@ (p.field :> st.i)]
             ELSE [st EXCEPT !.e = Append(@, createParseError(p.field, st.i + 1,
                                                             MissingCode(p.field)))])

\* The loop over optionalFields.
RECURSIVE ParseOptionalFields(_, _, _)
ParseOptionalFields(lines, k, st) ==
  IF k > Len(optionalFields) THEN st
  ELSE LET p == optionalFields[k]
           hit == st.i < Len(lines) /\ StartsWith(lines[st.i + 1], p.prefix)
       IN  ParseOptionalFields(lines, k + 1,
             IF hit
             THEN [i |-> st.i + 1,
                   f |-> st.f @@ (p.field :> Substring(lines[st.i + 1], Len(p.prefix))),
                   e |-> st.e,
                   at |-> st.at @@ (p.field :> st.i)]
             ELSE st)

\* The while loop collecting the '- ' lines from cursor i on.
RECURSIVE ParseResources(_, _)
ParseResources(lines, i) ==
  IF i < Len(lines) /\ StartsWith(lines[i + 1], PrefixResource)
  THEN <<Substring(lines[i + 1], 2)>> \o ParseResources(lines, i + 1)
  ELSE <<>>

hasRequiredFields(f) ==
  \A k \in 1..Len(REQUIRED_FIELDS) :
    REQUIRED_FIELDS[k] \in DOMAIN f /\ f[REQUIRED_FIELDS[k]] # <<>>

\* The steps of parse, each on the state st the one before left:
\* st = [i: the cursor lineIndex (0-based), f: the fields, e: the parse
\* errors, at: the cursor at which each field was read].

\* header line
ParseHeader(lines) ==
  IF HeaderMatch(lines[1])
  THEN [i |-> 1, f |-> ("domain" :> HeaderDomain(lines[1])), e |-> <<>>,
        at |-> ("domain" :> 0)]
  ELSE [i |-> 1, f |-> NoFields,
        e |-> <<createParseError("header", 1, "INVALID_HEADER")>>, at |-> NoFields]

\* the address step, were it to report nothing for a missing address
ParseAddressSilently(lines, st) ==
  IF st.i < Len(lines) /\ Trim(lines[st.i + 1]) # <<>>
  THEN [i |-> st.i + 1,
        f |-> st.f @@ ("address" :> Trim(lines[st.i + 1])),
        e |-> st.e,
        at |-> st.at @@ ("address" :> st.i)]
  ELSE st

\* address line
ParseAddress(lines, st) ==
  IF st.i < Len(lines) /\ Trim(lines[st.i + 1]) # <<>>
  THEN [i |-> st.i + 1,
        f |-> st.f @@ ("address" :> Trim(lines[st.i + 1])),
        e |-> st.e,
        at |-> st.at @@ ("address" :> st.i)]
  ELSE [st EXCEPT !.e = Append(@, createParseError("address", st.i + 1,
                                                  "MISSING_ADDRESS"))]

\* the skip, were it to leave the empty line under the cursor
SkipNoLine(lines, st) == st

\* skip empty line
SkipEmptyLine(lines, st) ==
  IF st.i < Len(lines) /\ lines[st.i + 1] = <<>> THEN [st EXCEPT !.i = @ + 1] ELSE st

\* optional statement, and the empty line after it
ParseStatement(lines, st) ==
  IF st.i < Len(lines) /\ lines[st.i + 1] # <<>>
     /\ ~StartsWith(lines[st.i + 1], <<"URI:">>)
  THEN SkipEmptyLine(lines,
         [i |-> st.i + 1,
          f |-> st.f @@ ("statement" :> lines[st.i + 1]),
          e |-> st.e,
          at |-> st.at @@ ("statement" :> st.i)])
  ELSE st

\* resources, then the returned object
ParseResourcesAndReturn(text, lines, st) ==
  LET res == IF st.i < Len(lines) /\ lines[st.i + 1] = ResourcesLine
             THEN ParseResources(lines, st.i + 1) ELSE <<>>
      f == IF res # <<>> THEN st.f @@ ("resources" :> res) ELSE st.f
  IN  [fields |-> f,
       lines |-> lines,
       rawMessage |-> text,
       isValid |-> st.e = <<>> /\ hasRequiredFields(f),
       parseErrors |-> st.e,
       at |-> st.at]

ParseLines(text, lines) ==
  ParseResourcesAndReturn(text, lines,
    ParseOptionalFields(lines, 1,
      ParseRequiredFields(lines, 1,
        ParseStatement(lines,
          SkipEmptyLine(lines,
            ParseAddress(lines,
              ParseHeader(lines)))))))

parse(text) == ParseLines(text, Split(text))

Truthy(f, name) == name \in DOMAIN f /\ f[name] # <<>>

RECURSIVE ResourceLines(_)
ResourceLines(rs) ==
  IF rs = <<>> THEN <<>> ELSE <<PrefixResource \o rs[1]>> \o ResourceLines(Tail(rs))

\* generateMessage, were it to write a second empty line after the address
\* when there is no statement
generateMessageTwoBlanks(f) ==
  LET One(name, prefix) == IF Truthy(f, name) THEN <<prefix \o f[name]>> ELSE <<>>
      lines ==
           (IF Truthy(f, "domain") THEN <<f["domain"] \o HeaderSuffix>> ELSE <<>>)
        \o (IF Truthy(f, "address") THEN <<f["address"]>> ELSE <<>>)
        \o << <<>> >>
        \o (IF Truthy(f, "statement") THEN <<f["statement"], <<>> >> ELSE << <<>> >>)
        \o One("uri", PrefixURI)
        \o One("version", PrefixVersion)
        \o One("chainId", PrefixChainId)
        \o One("nonce", PrefixNonce)
        \o One("issuedAt", PrefixIssuedAt)
        \o One("expirationTime", PrefixExpirationTime)
        \o One("notBefore", PrefixNotBefore)
        \o One("requestId", PrefixRequestId)
        \o (IF Truthy(f, "resources")
            THEN <<ResourcesLine>> \o ResourceLines(f["resources"]) ELSE <<>>)
  IN  JoinLines(lines)

generateMessage(f) ==
  LET One(name, prefix) == IF Truthy(f, name) THEN <<prefix \o f[name]>> ELSE <<>>
      lines ==
           (IF Truthy(f, "domain") THEN <<f["domain"] \o HeaderSuffix>> ELSE <<>>)
        \o (IF Truthy(f, "address") THEN <<f["address"]>> ELSE <<>>)
        \o << <<>> >>
        \o (IF Truthy(f, "statement") THEN <<f["statement"], <<>> >> ELSE <<>>)
        \o One("uri", PrefixURI)
        \o One("version", PrefixVersion)
        \o One("chainId", PrefixChainId)
        \o One("nonce", PrefixNonce)
        \o One("issuedAt", PrefixIssuedAt)
        \o One("expirationTime", PrefixExpirationTime)
        \o One("notBefore", PrefixNotBefore)
        \o One("requestId", PrefixRequestId)
        \o (IF Truthy(f, "resources")
            THEN <<ResourcesLine>> \o ResourceLines(f["resources"]) ELSE <<>>)
  IN  JoinLines(lines)

----------------------------------------------------------------------------
(* LineBreakValidator (lineBreakValidator.ts) *)

\* A diagnostic.  The human text of `message` is kept as its fixed wording
\* plus the numbers it interpolates (-1: the wording has no such number).
LineBreakError(field, line, text, found, expected, severity, code) ==
  [type |-> "format", field |-> field, line |-> line,
   message |-> [text |-> text, found |-> found, expected |-> expected],
   severity |-> severity, fixable |-> TRUE, code |-> code]

NoStructure ==
  [headerIndex |-> -1, addressIndex |-> -1, statementIndex |-> -1,
   uriIndex |-> -1, versionIndex |-> -1, chainIdIndex |-> -1,
   nonceIndex |-> -1, issuedAtIndex |-> -1]

\* One turn of the forEach of analyzeMessageStructure, on lines[index].
AnalyzeLine(structure, line, index) ==
  IF Includes(line, HeaderSuffix) THEN [structure EXCEPT !.headerIndex = index]
  ELSE IF AddressPattern(Trim(line)) THEN [structure EXCEPT !.addressIndex = index]
  ELSE IF StartsWith(line, PrefixURI) THEN [structure EXCEPT !.uriIndex = index]
  ELSE IF StartsWith(line, PrefixVersion) THEN [structure EXCEPT !.versionIndex = index]
  ELSE IF StartsWith(line, PrefixChainId) THEN [structure EXCEPT !.chainIdIndex = index]
  ELSE IF StartsWith(line, PrefixNonce) THEN [structure EXCEPT !.nonceIndex = index]
  ELSE IF StartsWith(line, PrefixIssuedAt) THEN [structure EXCEPT !.issuedAtIndex = index]
  ELSE IF /\ Trim(line) # <<>>
          /\ ~StartsWith(line, PrefixURI)
          /\ ~StartsWith(line, PrefixVersion)
          /\ ~StartsWith(line, PrefixChainId)
          /\ ~StartsWith(line, PrefixNonce)
          /\ ~StartsWith(line, PrefixIssuedAt)
          /\ ~StartsWith(line, PrefixExpirationTime)
          /\ ~StartsWith(line, PrefixNotBefore)
          /\ ~StartsWith(line, PrefixRequestId)
          /\ ~StartsWith(line, ResourcesLine)
          /\ structure.headerIndex # -1
          /\ index > structure.headerIndex
       THEN IF structure.statementIndex = -1
            THEN [structure EXCEPT !.statementIndex = index]
            ELSE structure
  ELSE structure

RECURSIVE AnalyzeFrom(_, _, _)
AnalyzeFrom(lines, k, structure) ==
  IF k > Len(lines) THEN structure
  ELSE AnalyzeFrom(lines, k + 1, AnalyzeLine(structure, lines[k], k - 1))

analyzeMessageStructure(lines) == AnalyzeFrom(lines, 1, NoStructure)

getExpectedEmptyLineBeforeUri(lines, structure) ==
  IF structure.statementIndex # -1 THEN structure.statementIndex + 1
  ELSE IF structure.addressIndex # -1 THEN structure.addressIndex + 1
  ELSE -1

RECURSIVE countConsecutiveEmptyLinesBefore(_, _)
countConsecutiveEmptyLinesBefore(lines, index) ==
  IF index - 1 >= 0 /\ lines[index] = <<>>
  THEN 1 + countConsecutiveEmptyLinesBefore(lines, index - 1)
  ELSE 0

\* [a, b, ...].filter(i => i !== -1)
RECURSIVE FilterFound(_)
FilterFound(idx) ==
  IF idx = <<>> THEN <<>>
  ELSE IF idx[1] # -1 THEN <<idx[1]>> \o FilterFound(Tail(idx))
  ELSE FilterFound(Tail(idx))

RECURSIVE BetweenFieldsErrors(_, _)
BetweenFieldsErrors(req, i) ==
  IF i > Len(req) - 1 THEN <<>>
  ELSE (IF req[i + 1] - req[i] > 1
        THEN <<LineBreakError("structure", req[i] + 2,
                              "Extra empty lines between required fields",
                              req[i + 1] - req[i] - 1, -1, "error",
                              "EXTRA_LINE_BREAKS_BETWEEN_FIELDS")>>
        ELSE <<>>)
       \o BetweenFieldsErrors(req, i + 1)

checkExtraLineBreaks(lines) ==
  LET structure == analyzeMessageStructure(lines)
      between == SubSeq(lines, structure.headerIndex + 2, structure.addressIndex)
      e1 == IF /\ structure.headerIndex # -1
               /\ structure.addressIndex # -1
               /\ \E k \in 1..Len(between) : between[k] = <<>>
            THEN <<LineBreakError("structure", structure.headerIndex + 2,
                                  "Extra empty line between header and address",
                                  -1, -1, "error", "EXTRA_LINE_BREAK_HEADER_ADDRESS")>>
            ELSE <<>>
      emptyLinesBefore == countConsecutiveEmptyLinesBefore(lines, structure.uriIndex)
      e2 == IF /\ structure.uriIndex # -1
               /\ getExpectedEmptyLineBeforeUri(lines, structure) # -1
               /\ emptyLinesBefore > 1
            THEN <<LineBreakError("structure",
                                  (structure.uriIndex - emptyLinesBefore + 1) + 1,
                                  "Extra empty lines before URI field",
                                  emptyLinesBefore, 1, "error",
                                  "EXTRA_LINE_BREAKS_BEFORE_URI")>>
            ELSE <<>>
      requiredFieldIndices ==
        FilterFound(<<structure.uriIndex, structure.versionIndex,
                      structure.chainIdIndex, structure.nonceIndex,
                      structure.issuedAtIndex>>)
  IN  e1 \o e2 \o BetweenFieldsErrors(requiredFieldIndices, 1)

checkMissingLineBreaks(lines) ==
  LET structure == analyzeMessageStructure(lines)
      e1 == IF /\ structure.addressIndex # -1
               /\ structure.statementIndex # -1
               /\ structure.statementIndex - structure.addressIndex = 1
            THEN <<LineBreakError("structure", structure.addressIndex + 2,
                                  "Missing empty line between address and statement",
                                  -1, -1, "error",
                                  "MISSING_LINE_BREAK_ADDRESS_STATEMENT")>>
            ELSE <<>>
      e2 == IF /\ structure.statementIndex # -1
               /\ structure.uriIndex # -1
               /\ structure.uriIndex - structure.statementIndex = 1
            THEN <<LineBreakError("structure", structure.statementIndex + 2,
                                  "Missing empty line between statement and URI field",
                                  -1, -1, "error",
                                  "MISSING_LINE_BREAK_STATEMENT_URI")>>
            ELSE <<>>
  IN  e1 \o e2

RECURSIVE TrailingWhitespaceFrom(_, _)
TrailingWhitespaceFrom(lines, k) ==
  IF k > Len(lines) THEN <<>>
  ELSE (IF Len(lines[k]) > 0 /\ lines[k] # TrimRight(lines[k])
        THEN <<LineBreakError("whitespace", k, "Line has trailing whitespace",
                              -1, -1, "warning", "TRAILING_WHITESPACE")>>
        ELSE <<>>)
       \o TrailingWhitespaceFrom(lines, k + 1)

checkTrailingWhitespace(lines) == TrailingWhitespaceFrom(lines, 1)

\* The forEach of checkConsecutiveEmptyLines from lines[k] on, with the two
\* counters it keeps.
RECURSIVE ConsecutiveEmptyFrom(_, _, _, _)
ConsecutiveEmptyFrom(lines, k, consecutiveEmpty, consecutiveStart) ==
  IF k > Len(lines) THEN <<>>
  ELSE IF Trim(lines[k]) = <<>>
       THEN ConsecutiveEmptyFrom(lines, k + 1, consecutiveEmpty + 1,
              IF consecutiveEmpty = 0 THEN k - 1 ELSE consecutiveStart)
       ELSE (IF consecutiveEmpty > 2
             THEN <<LineBreakError("structure", consecutiveStart + 2,
                                   "Too many consecutive empty lines",
                                   consecutiveEmpty, -1, "warning",
                                   "TOO_MANY_CONSECUTIVE_EMPTY_LINES")>>
             ELSE <<>>)
            \o ConsecutiveEmptyFrom(lines, k + 1, 0, consecutiveStart)

checkConsecutiveEmptyLines(lines) == ConsecutiveEmptyFrom(lines, 1, 0, -1)

validateLineBreaks(text) ==
  LET lines == Split(text)
  IN  checkExtraLineBreaks(lines) \o checkMissingLineBreaks(lines)
      \o checkTrailingWhitespace(lines) \o checkConsecutiveEmptyLines(lines)

\* the map over the lines, were it to leave each line as it is
MapNoTrim(lines) == lines

RECURSIVE MapTrimRight(_)
MapTrimRight(lines) ==
  IF lines = <<>> THEN <<>>
  ELSE <<TrimRight(lines[1])>> \o MapTrimRight(Tail(lines))

\* The while loop of fixLineBreaks from cleanedLines[i] (0-based i) on: the
\* lines it pushes to fixedLines.
RECURSIVE RebuildFrom(_, _, _)
RebuildFrom(cleanedLines, structure, i) ==
  IF i >= Len(cleanedLines) THEN <<>>
  ELSE LET line == cleanedLines[i + 1]
           pushed ==
             IF i = structure.headerIndex THEN <<line>>
             ELSE IF i = structure.addressIndex
                  THEN IF structure.statementIndex # -1 THEN <<line, <<>> >>
                       ELSE <<line>>
             ELSE IF i = structure.statementIndex THEN <<line, <<>> >>
             ELSE IF \/ StartsWith(line, PrefixURI)
                     \/ StartsWith(line, PrefixVersion)
                     \/ StartsWith(line, PrefixChainId)
                     \/ StartsWith(line, PrefixNonce)
                     \/ StartsWith(line, PrefixIssuedAt) THEN <<line>>
             ELSE IF \/ StartsWith(line, PrefixExpirationTime)
                     \/ StartsWith(line, PrefixNotBefore)
                     \/ StartsWith(line, PrefixRequestId) THEN <<line>>
             ELSE IF \/ StartsWith(line, ResourcesLine)
                     \/ StartsWith(line, PrefixResource) THEN <<line>>
             ELSE IF line = <<>> THEN <<>>
             ELSE <<line>>
       IN  pushed \o RebuildFrom(cleanedLines, structure, i + 1)

\* The final loop of fixLineBreaks: keep at most 2 consecutive empty lines.
RECURSIVE KeepMaxTwoEmpty(_, _)
KeepMaxTwoEmpty(fixedLines, consecutiveEmpty) ==
  IF fixedLines = <<>> THEN <<>>
  ELSE IF fixedLines[1] = <<>>
       THEN (IF consecutiveEmpty + 1 <= 2 THEN << <<>> >> ELSE <<>>)
            \o KeepMaxTwoEmpty(Tail(fixedLines), consecutiveEmpty + 1)
       ELSE <<fixedLines[1]>> \o KeepMaxTwoEmpty(Tail(fixedLines), 0)

\* fixLineBreaks, were it to trim the lines without rebuilding the spacing
fixLineBreaksTrimOnly(text) ==
  JoinLines(KeepMaxTwoEmpty(MapTrimRight(Split(text)), 0))

fixLineBreaks(text) ==
  LET lines == Split(text)
      structure == analyzeMessageStructure(lines)
      cleanedLines == MapTrimRight(lines)
      fixedLines == RebuildFrom(cleanedLines, structure, 0)
  IN  JoinLines(KeepMaxTwoEmpty(fixedLines, 0))

----------------------------------------------------------------------------
(* JavaScript values the replacer handles *)

\* A value that may be `undefined`.
Def(x) == [def |-> TRUE, v |-> x]
Undefined == [def |-> FALSE, v |-> <<>>]

\* `${value}` in a template string
Template(value) == IF value.def THEN value.v ELSE <<"undefined">>

\* an array element as Array.prototype.join writes it
Joined(value) == IF value.def THEN value.v ELSE <<>>

\* Date: a time is a number of minutes after the instant "T+0"; the ISO
\* texts are the tokens "T+0", "T+10", "T+20"; "T+0 loose" is a text that
\* Date parses to the instant T+0 without being in ISO form; any other text
\* gives an Invalid Date.
IsoTimes == {0, 10, 20}

toISOString(time) ==
  CASE time = 0 -> <<"T+0">>
    [] time = 10 -> <<"T+10">>
    [] time = 20 -> <<"T+20">>

NaN == -1

\* new Date(text).getTime()
DateGetTime(text) ==
  CASE text = <<"T+0">> -> 0
    [] text = <<"T+0 loose">> -> 0
    [] text = <<"T+10">> -> 10
    [] text = <<"T+20">> -> 20
    [] OTHER -> NaN

\* characters in a token
TokenLength(tok) ==
  CASE tok = "hex40" -> 40
    [] tok = "HEX40ck" -> 40
    [] tok = "0x" -> 2
    [] tok = "n16" -> 16
    [] tok = SP -> 1
    [] tok = NL -> 1
    [] OTHER -> 4

RECURSIVE StringLength(_)
StringLength(s) == IF s = <<>> THEN 0 ELSE TokenLength(s[1]) + StringLength(Tail(s))

\* s.replace(a, b) with a and b one token each: the first occurrence only
RECURSIVE ReplaceFirst(_, _, _)
ReplaceFirst(s, a, b) ==
  IF s = <<>> THEN s
  ELSE IF s[1] = a THEN <<b>> \o Tail(s)
  ELSE <<s[1]>> \o ReplaceFirst(Tail(s), a, b)

----------------------------------------------------------------------------
(* FieldReplacer (fieldReplacer.ts) *)

\* 1-based position of the first line starting with `prefix`, 0 if none
\* (a `for` loop that stops at its first hit; findIndex() + 1)
RECURSIVE FirstStartingWith(_, _, _)
FirstStartingWith(lines, prefix, k) ==
  IF k > Len(lines) THEN 0
  ELSE IF StartsWith(lines[k], prefix) THEN k
  ELSE FirstStartingWith(lines, prefix, k + 1)

\* 1-based position of the first line that includes the header words
RECURSIVE FirstHeader(_, _)
FirstHeader(lines, k) ==
  IF k > Len(lines) THEN 0
  ELSE IF Includes(lines[k], HeaderSuffix) THEN k
  ELSE FirstHeader(lines, k + 1)

\* the inner loop of replaceAddressField from line k on
RECURSIVE FirstAddressFrom(_, _)
FirstAddressFrom(lines, k) ==
  IF k > Len(lines) THEN 0
  ELSE IF /\ Trim(lines[k]) # <<>>
          /\ ~StartsWith(lines[k], <<"URI:">>)
          /\ AddressPattern(Trim(lines[k])) THEN k
  ELSE FirstAddressFrom(lines, k + 1)

\* the loop of replaceStatementField from line k on: the line it replaces
RECURSIVE FirstStatementFrom(_, _, _)
FirstStatementFrom(lines, k, foundAddress) ==
  IF k > Len(lines) THEN 0
  ELSE IF AddressPattern(Trim(lines[k])) THEN FirstStatementFrom(lines, k + 1, TRUE)
  ELSE IF foundAddress /\ Trim(lines[k]) # <<>> /\ ~StartsWith(lines[k], <<"URI:">>)
       THEN k
  ELSE FirstStatementFrom(lines, k + 1, foundAddress)

replaceFieldWithPrefix(lines, prefix, newValue) ==
  LET i == FirstStartingWith(lines, prefix, 1)
  IN  JoinLines(IF i = 0 THEN lines
                ELSE [lines EXCEPT ![i] = prefix \o Template(newValue)])

replaceDomainField(lines, newValue) ==
  LET i == FirstHeader(lines, 1)
  IN  JoinLines(IF i = 0 THEN lines
                ELSE [lines EXCEPT ![i] = Template(newValue) \o HeaderSuffix])

replaceAddressField(lines, newValue) ==
  LET i == FirstHeader(lines, 1)
      j == IF i = 0 THEN 0 ELSE FirstAddressFrom(lines, i + 1)
  IN  JoinLines(IF j = 0 THEN lines ELSE [lines EXCEPT ![j] = Joined(newValue)])

replaceStatementField(lines, newValue) ==
  LET j == FirstStatementFrom(lines, 1, FALSE)
  IN  JoinLines(IF j = 0 THEN lines ELSE [lines EXCEPT ![j] = Joined(newValue)])

replaceExpirationTimeField(lines, newValue) ==
  LET existingIndex == FirstStartingWith(lines, PrefixExpirationTime, 1)
      issuedAtIndex == FirstStartingWith(lines, PrefixIssuedAt, 1)
      newLine == PrefixExpirationTime \o Template(newValue)
  IN  JoinLines(IF existingIndex > 0 THEN [lines EXCEPT ![existingIndex] = newLine]
                ELSE IF issuedAtIndex > 0
                     THEN SubSeq(lines, 1, issuedAtIndex) \o <<newLine>>
                          \o SubSeq(lines, issuedAtIndex + 1, Len(lines))
                ELSE lines)

\* the prefix replaceField looks for, for the fields replaced by prefix
FieldPrefix(fieldName) ==
  CASE fieldName = "uri" -> PrefixURI
    [] fieldName = "version" -> PrefixVersion
    [] fieldName = "chainId" -> PrefixChainId
    [] fieldName = "nonce" -> PrefixNonce
    [] fieldName = "issuedAt" -> PrefixIssuedAt
    [] fieldName = "notBefore" -> PrefixNotBefore
    [] fieldName = "requestId" -> PrefixRequestId

replaceField(originalMessage, fieldName, newValue) ==
  LET lines == Split(originalMessage)
  IN  CASE fieldName = "domain" -> replaceDomainField(lines, newValue)
        [] fieldName = "address" -> replaceAddressField(lines, newValue)
        [] fieldName = "statement" -> replaceStatementField(lines, newValue)
        [] fieldName \in {"uri", "version", "chainId", "nonce", "issuedAt",
                          "notBefore", "requestId"} ->
             replaceFieldWithPrefix(lines, FieldPrefix(fieldName), newValue)
        [] fieldName = "expirationTime" -> replaceExpirationTimeField(lines, newValue)
        [] OTHER -> originalMessage

\* The "simple checksum" of the 40 digits: lower-cased, then every letter at
\* an even position upper-cased.  "HEX40ck" is that text.
toChecksumAddress(address) ==
  IF ~StartsWith(address, <<"0x">>) \/ StringLength(address) # 42 THEN address
  ELSE <<"0x", "HEX40ck">>

\* null is Undefined
fixAddressFormat(address) ==
  LET a == Trim(address)
  IN  IF ~StartsWith(a, <<"0x">>) /\ a \in {<<"hex40">>, <<"HEX40ck">>}
      THEN Def(<<"0x">> \o a)
      ELSE IF StartsWith(a, <<"0x">>) /\ a \in {<<"0x", "hex40">>, <<"0x", "HEX40ck">>}
      THEN Def(a)
      ELSE Undefined

\* `timestamp` may be undefined: new Date(undefined) is an Invalid Date
fixTimestampFormat(timestamp) ==
  LET time == IF timestamp.def THEN DateGetTime(timestamp.v) ELSE NaN
  IN  IF time = NaN THEN Undefined ELSE Def(toISOString(time))

\* 16 characters drawn with Math.random(): `drawn` is the text drawn
generateSecureNonce(drawn) == drawn

\* a || b
OrElse(a, b) == IF a.def /\ a.v # <<>> THEN a ELSE b

LineBreakFixCodes ==
  {"EXTRA_LINE_BREAK_HEADER_ADDRESS", "EXTRA_LINE_BREAKS_BEFORE_URI",
   "EXTRA_LINE_BREAKS_BETWEEN_FIELDS", "MISSING_LINE_BREAK_ADDRESS_STATEMENT",
   "MISSING_LINE_BREAK_STATEMENT_URI", "TRAILING_WHITESPACE",
   "TOO_MANY_CONSECUTIVE_EMPTY_LINES"}

NonceFixCodes ==
  {"NONCE_REQUIRED", "NONCE_TOO_SHORT", "SECURITY_SHORT_NONCE", "NONCE_WEAK_ENTROPY",
   "SECURITY_WEAK_NONCE_PATTERN", "SECURITY_LOW_NONCE_COMPLEXITY"}

\* the default case of the switch, were it to repair the spacing
UnknownCodeRepairsSpacing(originalMessage) ==
  [does |-> "return", text |-> fixLineBreaks(originalMessage)]

\* the default case of the switch
UnknownCode(originalMessage) == [does |-> "return", text |-> originalMessage]

\* What the switch of applyFieldFix does with error.code: "throw" (a
\* TypeError or RangeError leaves the function), "return" `text` from inside
\* the switch, or "break" with newValue set to `value`.
FixSwitch(originalMessage, err, parsed, fieldValue, drawn, now) ==
  CASE err.code = "ADDRESS_NOT_CHECKSUM" ->
         IF ~fieldValue.def THEN [does |-> "throw"]
         ELSE [does |-> "break", value |-> Def(toChecksumAddress(fieldValue.v))]
    [] err.code = "ADDRESS_INVALID_FORMAT" ->
         IF ~fieldValue.def THEN [does |-> "throw"]
         ELSE [does |-> "break",
               value |-> OrElse(fixAddressFormat(fieldValue.v), fieldValue)]
    [] err.code \in {"VERSION_REQUIRED", "VERSION_INVALID"} ->
         [does |-> "break", value |-> Def(<<"1">>)]
    [] err.code = "ISSUED_AT_REQUIRED" ->
         [does |-> "break", value |-> Def(toISOString(now))]
    [] err.code \in {"ISSUED_AT_INVALID_FORMAT", "EXPIRATION_TIME_INVALID_FORMAT"} ->
         [does |-> "break", value |-> OrElse(fixTimestampFormat(fieldValue), fieldValue)]
    [] err.code \in NonceFixCodes ->
         [does |-> "break", value |-> Def(generateSecureNonce(drawn))]
    [] err.code = "URI_INSECURE_SCHEME" ->
         IF ~fieldValue.def THEN [does |-> "throw"]
         ELSE [does |-> "break",
               value |-> Def(ReplaceFirst(fieldValue.v, "http://", "https://"))]
    [] err.code = "STATEMENT_LINE_BREAKS" ->
         IF ~fieldValue.def THEN [does |-> "throw"]
         ELSE [does |-> "break", value |-> Def(Trim(CollapseLineBreaks(fieldValue.v)))]
    [] err.code = "SECURITY_NO_EXPIRATION" ->
         LET baseTime == IF Truthy(parsed.fields, "issuedAt")
                         THEN DateGetTime(parsed.fields["issuedAt"]) ELSE now
         IN  IF baseTime = NaN THEN [does |-> "throw"]
             ELSE [does |-> "return",
                   text |-> replaceField(originalMessage, "expirationTime",
                                         Def(toISOString(baseTime + 10)))]
    [] err.code \in LineBreakFixCodes ->
         [does |-> "return", text |-> fixLineBreaks(originalMessage)]
    [] OTHER -> UnknownCode(originalMessage)

\* applyFieldFix(originalMessage, error), with the two things it reads from
\* its environment: `drawn`, the nonce Math.random() yields, and `now`, the
\* clock.  The result says whether the call threw and the text it returned.
applyFieldFix(originalMessage, err, drawn, now) ==
  LET parsed == parse(originalMessage)
      fieldValue == IF err.field \in DOMAIN parsed.fields
                    THEN Def(parsed.fields[err.field]) ELSE Undefined
      switch == FixSwitch(originalMessage, err, parsed, fieldValue, drawn, now)
  IN  IF switch.does = "throw" THEN [threw |-> TRUE, text |-> originalMessage]
      ELSE IF switch.does = "return" THEN [threw |-> FALSE, text |-> switch.text]
      ELSE [threw |-> FALSE,
            text |-> replaceField(originalMessage, err.field, switch.value)]

----------------------------------------------------------------------------
(* Inputs *)

Header == <<"w", SP, "WANTS">>
AddressLine == <<"0x", "hex40">>
StatementLine == <<"w">>
UriLine == PrefixURI \o <<"https://", "w">>
VersionLine == PrefixVersion \o <<"1">>
ChainIdLine == PrefixChainId \o <<"1">>
NonceLine == PrefixNonce \o <<"w">>
IssuedAtLine == PrefixIssuedAt \o <<"T+0">>
ExpirationTimeLine == PrefixExpirationTime \o <<"T+10">>

\* `seq` without its k-th element
RemoveAt(seq, k) == SubSeq(seq, 1, k - 1) \o SubSeq(seq, k + 1, Len(seq))

Blanks(n) == [k \in 1..n |-> <<>>]

\* every sequence of 1..n lines taken from `kinds`
LinesUpTo(kinds, n) == UNION {[1..k -> kinds] : k \in 1..n}

NoError == [code |-> "NONE", field |-> "none"]

\* the component's state where no component is mounted
NoUi ==
  [validationResult |-> Undefined, isValidating |-> FALSE,
   realTimeValidation |-> FALSE, shouldRevalidateAfterFix |-> FALSE,
   inflight |-> <<>>, timer |-> Undefined]

\* Lines a free-form text is made of, for the line-break validator.
LineBreakKinds ==
  {Header, AddressLine, <<>>, <<SP>>, StatementLine, StatementLine \o <<SP>>,
   UriLine, PrefixURI, VersionLine, IssuedAtLine, ExpirationTimeLine,
   ResourcesLine, PrefixResource \o <<"w">>}

\* header, g0 blanks, address, g1 blanks, statement lines, g2 blanks, URI,
\* g3 blanks, the other required lines, g4 blanks, optional lines
Layout(g0, g1, stmt, g2, g3, g4, opt) ==
  <<Header>> \o Blanks(g0) \o <<AddressLine>> \o Blanks(g1) \o stmt \o Blanks(g2)
  \o <<UriLine>> \o Blanks(g3)
  \o <<VersionLine, ChainIdLine, NonceLine, IssuedAtLine>> \o Blanks(g4) \o opt

LineBreakLayouts ==
  {Layout(g0, g1, stmt, g2, g3, g4, opt) :
     g0 \in 0..1, g1 \in 0..MaxGap, stmt \in {<<>>, <<StatementLine>>},
     g2 \in 0..MaxGap, g3 \in 0..1, g4 \in 0..MaxGap,
     opt \in {<<>>, <<ExpirationTimeLine>>}}

\* a header between two runs of blank lines, alone or after a line that ends
\* with a space
BlankRunLayouts ==
  {first \o Blanks(n) \o <<Header>> \o Blanks(m) :
     first \in {<<>>, <<StatementLine \o <<SP>> >>}, n \in 0..MaxGap, m \in 0..MaxGap}

LineBreakTexts ==
  {JoinLines(ls) : ls \in LinesUpTo(LineBreakKinds, MaxLines) \cup LineBreakLayouts
                          \cup BlankRunLayouts}

----------------------------------------------------------------------------
(* The line-break validator and its fixer, called on a text *)

InitLineBreaks ==
  /\ message \in LineBreakTexts
  /\ original = message
  /\ ops = <<>>
  /\ error = NoError
  /\ threw = FALSE
  /\ errors = <<>>
  /\ fields = NoFields
  /\ given = NoFields
  /\ target = "none"
  /\ ui = NoUi

\* LineBreakValidator.validateLineBreaks(message)
ValidateLineBreaks ==
  /\ ops \in {<<>>, <<"fixLineBreaks">>, <<"validateLineBreaks", "applyFieldFix">>}
  /\ errors' = validateLineBreaks(message)
  /\ ops' = Append(ops, "validateLineBreaks")
  /\ UNCHANGED <<message, original, error, threw, fields, given, target, ui>>

\* message = LineBreakValidator.fixLineBreaks(message)
FixLineBreaks ==
  /\ ops \in {<<>>, <<"fixLineBreaks">>}
  /\ original' = message
  /\ message' = fixLineBreaks(message)
  /\ ops' = Append(ops, "fixLineBreaks")
  /\ UNCHANGED <<error, threw, errors, fields, given, target, ui>>

\* The caller picks one of the reported diagnostics and applies its fix.
ApplyReportedFix ==
  /\ ops = <<"validateLineBreaks">>
  /\ \E k \in 1..Len(errors) :
       LET r == applyFieldFix(message, errors[k], <<"n16">>, 10)
       IN  /\ error' = errors[k]
           /\ original' = message
           /\ message' = r.text
           /\ threw' = r.threw
  /\ ops' = Append(ops, "applyFieldFix")
  /\ UNCHANGED <<errors, fields, given, target, ui>>

NextLineBreaks == ValidateLineBreaks \/ FixLineBreaks \/ ApplyReportedFix

SpecLineBreaks == InitLineBreaks /\ [][NextLineBreaks]_vars

----------------------------------------------------------------------------
(* The field replacer, called on a text with a diagnostic *)

\* Lines a short free-form text is made of, for the replacer.
ReplacerKinds == {Header, <<>>, AddressLine, NonceLine}

\* header, address line(s), g blank lines, statement line(s) and the blank
\* line after them, then the field lines
ReplacerLayouts ==
  {<<Header>> \o adr \o Blanks(g) \o stmt \o <<PrefixURI \o <<"http://", "w">>>>
   \o <<VersionLine, ChainIdLine, NonceLine>> \o iat \o opt :
     adr \in {<<>>, <<AddressLine>>, <<<<"hex40">>>>, <<<<"w">>>>},
     g \in 0..MaxGap,
     stmt \in {<<>>, <<StatementLine, <<>> >>, <<PrefixNonce \o <<"w", "w">>, <<>> >>},
     iat \in {<<>>, <<IssuedAtLine>>, <<PrefixIssuedAt \o <<"T+0 loose">>>>,
              <<PrefixIssuedAt \o <<"w">>>>},
     opt \in {<<>>, <<ExpirationTimeLine>>}}

ReplacerTexts ==
  {JoinLines(ls) : ls \in LinesUpTo(ReplacerKinds, MaxLines) \cup ReplacerLayouts}

\* the codes a diagnostic handed to applyFieldFix may carry: those of the
\* switch, the two further line-break codes, and two codes with no repair
DiagnosticCodes ==
  {"ADDRESS_NOT_CHECKSUM", "ADDRESS_INVALID_FORMAT", "VERSION_REQUIRED",
   "VERSION_INVALID", "ISSUED_AT_REQUIRED", "ISSUED_AT_INVALID_FORMAT",
   "EXPIRATION_TIME_INVALID_FORMAT", "URI_INSECURE_SCHEME", "STATEMENT_LINE_BREAKS",
   "SECURITY_NO_EXPIRATION", "MISSING_LINE_BREAK_NO_STATEMENT",
   "EXTRA_LINE_BREAKS_BEFORE_OPTIONAL_FIELD", "DOMAIN_INVALID_FORMAT",
   "CHAIN_ID_INVALID"}
  \cup NonceFixCodes \cup LineBreakFixCodes

DiagnosticFields ==
  {"address", "statement", "uri", "version", "nonce", "issuedAt", "expirationTime",
   "structure", "whitespace"}

Init ==
  /\ message \in ReplacerTexts
  /\ original = message
  /\ ops = <<>>
  /\ error = NoError
  /\ threw = FALSE
  /\ errors = <<>>
  /\ fields = NoFields
  /\ given = NoFields
  /\ target = "none"
  /\ ui = NoUi

\* message = FieldReplacer.applyFieldFix(message, error); when the call
\* throws the caller's text stays as it was
ApplyFieldFix ==
  /\ ops = <<>>
  /\ \E code \in DiagnosticCodes, field \in DiagnosticFields :
       LET r == applyFieldFix(message, [code |-> code, field |-> field], <<"n16">>, 10)
       IN  /\ error' = [code |-> code, field |-> field]
           /\ original' = message
           /\ message' = r.text
           /\ threw' = r.threw
  /\ ops' = <<"applyFieldFix">>
  /\ UNCHANGED <<errors, fields, given, target, ui>>

\* message = FieldReplacer.replaceField(message, fieldName, newValue)
ReplaceField ==
  /\ ops = <<>>
  /\ \E fieldName \in FieldNames \cup {"structure", "header"} :
       /\ target' = fieldName
       /\ original' = message
       /\ message' = replaceField(message, fieldName, Def(<<"new">>))
  /\ ops' = <<"replaceField">>
  /\ UNCHANGED <<error, threw, errors, fields, given, ui>>

Next == ApplyFieldFix \/ ReplaceField

Spec == Init /\ [][Next]_vars

----------------------------------------------------------------------------
(* The parser and the generator *)

\* most entries of a resources list
MaxResources == 2

ParserKinds ==
  {<<>>, <<SP>>, Header, AddressLine, StatementLine, UriLine, VersionLine,
   ChainIdLine, NonceLine, IssuedAtLine, ExpirationTimeLine, ResourcesLine,
   PrefixResource \o <<"w">>}

FullMessage(stmt) ==
  <<Header, AddressLine, <<>> >> \o stmt
  \o <<UriLine, VersionLine, ChainIdLine, NonceLine, IssuedAtLine,
       ExpirationTimeLine, ResourcesLine, PrefixResource \o <<"w">>>>

\* a message cut after any of its lines
Truncations ==
  UNION {{SubSeq(FullMessage(stmt), 1, k) : k \in 1..Len(FullMessage(stmt))} :
           stmt \in {<<>>, <<StatementLine, <<>> >>}}

\* header, address, n blank lines, the five required lines
NoStatementLayouts == {Layout(0, n, <<>>, 0, 0, 0, <<>>) : n \in 0..MaxGap}

\* a well-formed message without one of its five required field lines
OneRequiredLineRemoved ==
  UNION {{RemoveAt(FullMessage(stmt), 3 + Len(stmt) + j) : j \in 1..Len(fieldParsers)} :
           stmt \in {<<>>, <<StatementLine, <<>> >>}}

\* header, address, one blank line, `line`, then the required lines
StatementProbes ==
  {<<Header, AddressLine, <<>>, line, UriLine, VersionLine, ChainIdLine, NonceLine,
     IssuedAtLine>> :
     line \in {<<"URI:", "w">>, <<"URI:">>, <<SP>>, <<SP, "URI:", SP, "w">>, <<>>}}
  \cup {<<Header, AddressLine, <<>>, StatementLine>> \o Blanks(n) \o <<UriLine>> :
          n \in 0..MaxGap}

ParserTexts ==
  {<<>>} \cup {JoinLines(ls) : ls \in LinesUpTo(ParserKinds, MaxLines) \cup Truncations
                                     \cup NoStatementLayouts \cup OneRequiredLineRemoved
                                     \cup StatementProbes}

\* the ways to leave out or set one field
Choices(name, values) == {NoFields} \cup {(name :> v) : v \in values}

RequiredMaps ==
  {[domain |-> d, address |-> a, uri |-> <<"https://", "w">>, version |-> <<"1">>,
    chainId |-> <<"1">>, nonce |-> <<"w">>, issuedAt |-> <<"T+0">>] :
     d \in {<<"w">>, <<"w", SP, "w">>, <<"w", NL, "w">>},
     a \in {<<"0x", "hex40">>, <<"0x", "hex40", SP>>}}
  \cup {[domain |-> <<"w">>, address |-> <<"0x", "hex40">>,
         uri |-> <<"https://", "w", NL, "w">>, version |-> <<"1">>,
         chainId |-> <<"1">>, nonce |-> <<"w">>, issuedAt |-> <<"T+0">>]}

\* the complete field maps: all REQUIRED fields set, any subset of the others
FieldMaps ==
  {r @@ st @@ ex @@ nb @@ rq @@ rs :
     r \in RequiredMaps,
     st \in Choices("statement",
                    {<<>>, <<"w">>, <<"URI:", SP, "w">>, <<"Version:", SP, "w">>,
                     <<"w", NL, "w">>, <<"w", SP>>, <<"hex40">>}),
     ex \in Choices("expirationTime", {<<"T+10">>}),
     nb \in Choices("notBefore", {<<"T+0">>}),
     rq \in Choices("requestId", {<<"w">>}),
     rs \in Choices("resources",
                    {<<>>} \cup LinesUpTo({<<"w">>, <<>>, <<"https://", "w">>},
                                          MaxResources))}

InitParser ==
  /\ \/ message \in ParserTexts /\ given = NoFields
     \/ message = <<>> /\ given \in FieldMaps
  /\ original = message
  /\ ops = <<>>
  /\ error = NoError
  /\ threw = FALSE
  /\ errors = <<>>
  /\ fields = NoFields
  /\ target = "none"
  /\ ui = NoUi

\* message = SiweMessageParser.generateMessage(given)
GenerateMessage ==
  /\ ops = <<>>
  /\ given # NoFields
  /\ message' = generateMessage(given)
  /\ ops' = <<"generateMessage">>
  /\ UNCHANGED <<original, error, threw, errors, fields, given, target, ui>>

\* parsed = SiweMessageParser.parse(message)
Parse ==
  /\ ops \in {<<>>, <<"generateMessage">>}
  /\ fields' = parse(message).fields
  /\ errors' = parse(message).parseErrors
  /\ ops' = Append(ops, "parse")
  /\ UNCHANGED <<message, original, error, threw, given, target, ui>>

\* errors = LineBreakValidator.validateLineBreaks(message), of a generated text
ValidateGenerated ==
  /\ ops = <<"generateMessage">>
  /\ errors' = validateLineBreaks(message)
  /\ ops' = Append(ops, "validateLineBreaks")
  /\ UNCHANGED <<message, original, error, threw, fields, given, target, ui>>

NextParser == GenerateMessage \/ Parse \/ ValidateGenerated

SpecParser == InitParser /\ [][NextParser]_vars

----------------------------------------------------------------------------
(* The SiweValidator component (SiweValidator.tsx) and the engine it calls *)

\* most calls of the component's handlers in one run
MaxCalls == 3

\* the diagnostics of `all` with severity `severity`, in order
RECURSIVE BySeverity(_, _)
BySeverity(all, severity) ==
  IF all = <<>> THEN <<>>
  ELSE IF all[1].severity = severity
       THEN <<all[1]>> \o BySeverity(Tail(all), severity)
       ELSE BySeverity(Tail(all), severity)

\* A diagnostic of a field or security validator.
Diagnostic(type, field, severity, fixable, code) ==
  [type |-> type, field |-> field, line |-> 1, column |-> 1,
   severity |-> severity, fixable |-> fixable, code |-> code]

\* what the field and security validators may report on a text
ValidatorFindings ==
  {<<>>,
   <<Diagnostic("format", "address", "error", TRUE, "ADDRESS_INVALID_FORMAT")>>,
   <<Diagnostic("security", "uri", "warning", TRUE, "URI_INSECURE_SCHEME"),
     Diagnostic("security", "expirationTime", "warning", TRUE, "SECURITY_NO_EXPIRATION"),
     Diagnostic("compliance", "statement", "info", FALSE, "STATEMENT_RECOMMENDED")>>}

\* the parser's diagnostics the engine keeps: a missing-field diagnostic is
\* dropped when a line-break diagnostic explains it
RECURSIVE Unexplained(_, _)
Unexplained(parseErrors, structural) ==
  IF parseErrors = <<>> THEN <<>>
  ELSE IF /\ parseErrors[1].code \in {"MISSING_ADDRESS", "MISSING_URI", "MISSING_VERSION",
                                      "MISSING_CHAINID", "MISSING_NONCE", "MISSING_ISSUEDAT"}
          /\ \E k \in 1..Len(structural) :
                structural[k].code \notin {"TRAILING_WHITESPACE",
                                          "TOO_MANY_CONSECUTIVE_EMPTY_LINES"}
       THEN Unexplained(Tail(parseErrors), structural)
       ELSE <<parseErrors[1]>> \o Unexplained(Tail(parseErrors), structural)

\* every diagnostic of a validation, were the parser's to come first and
\* all of them to be kept
AllDiagnosticsParserFirst(structural, parseErrors, found) ==
  parseErrors \o structural \o found

\* every diagnostic of a validation, the structural ones first
AllDiagnostics(structural, parseErrors, found) ==
  structural \o Unexplained(parseErrors, structural) \o found

\* the ValidationResult of a sequence of diagnostics
Partition(all, text) ==
  [isValid |-> BySeverity(all, "error") = <<>>,
   errors |-> BySeverity(all, "error"),
   warnings |-> BySeverity(all, "warning"),
   suggestions |-> BySeverity(all, "info"),
   originalMessage |-> text]

\* ValidationEngine.validate(text): the structural diagnostics first, then
\* the parser's and the validators', partitioned by severity
validate(text, found) ==
  Partition(AllDiagnostics(validateLineBreaks(text), parse(text).parseErrors, found), text)

\* the result handleValidate builds when validation throws, were it to
\* call the message valid
SyntheticResultValid(text) ==
  [isValid |-> TRUE,
   errors |-> <<[type |-> "format", field |-> "message", line |-> 1, column |-> 1,
                 severity |-> "error", fixable |-> FALSE, code |-> "VALIDATION_ERROR"]>>,
   warnings |-> <<>>,
   suggestions |-> <<>>,
   originalMessage |-> text]

\* the result handleValidate builds when validation throws
SyntheticResult(text) ==
  [isValid |-> FALSE,
   errors |-> <<[type |-> "format", field |-> "message", line |-> 1, column |-> 1,
                 severity |-> "error", fixable |-> FALSE, code |-> "VALIDATION_ERROR"]>>,
   warnings |-> <<>>,
   suggestions |-> <<>>,
   originalMessage |-> text]

\* the result after a render, were no effect to clear it
ClearedNever(text, result) == result

\* the effect that clears the result of a blank message, run after a render
\* with message `text` and result `result`
ClearedWhenBlank(text, result) ==
  IF Trim(text) = <<>> /\ result.def THEN Undefined ELSE result

\* the texts typed or pasted into the text area
UiTexts ==
  {<<SP>>,
   JoinLines(Layout(0, 1, <<StatementLine>>, 1, 0, 0, <<>>)),
   JoinLines(<<Header, AddressLine, StatementLine \o <<SP>>, <<>>,
               PrefixURI \o <<"http://", "w">>, <<>>, VersionLine, ChainIdLine,
               NonceLine, IssuedAtLine>>),
   JoinLines(<<Header, AddressLine, <<>>, StatementLine \o <<SP>>, <<>>, UriLine,
               VersionLine, ChainIdLine, NonceLine, PrefixIssuedAt \o <<"w">> >>)}

\* message.trim() is empty
Blank(text) == Trim(text) = <<>>

\* handleValidate, called with `text` as its message, up to its await; the
\* validation it starts is the last of those in flight
StartValidate(u, text) ==
  IF Blank(text) THEN [u EXCEPT !.validationResult = Undefined]
  ELSE [u EXCEPT !.isValidating = TRUE, !.inflight = Append(@, text)]

\* the real-time validation effect and the cleanup of its previous run: the
\* debounce timer is dropped and, when real-time validation is on, set anew
RealTimeEffect(u, text) ==
  [u EXCEPT !.timer = IF u.realTimeValidation /\ ~Blank(text) THEN Def(text)
                      ELSE Undefined,
            !.validationResult = IF u.realTimeValidation /\ Blank(text) THEN Undefined
                                 ELSE @]

\* the re-validation after fix effect, were it to start no validation
RevalidateEffectIdle(u, text) ==
  IF u.shouldRevalidateAfterFix /\ ~Blank(text)
  THEN [u EXCEPT !.shouldRevalidateAfterFix = FALSE]
  ELSE u

\* the re-validation after fix effect
RevalidateEffect(u, text) ==
  IF u.shouldRevalidateAfterFix /\ ~Blank(text)
  THEN StartValidate([u EXCEPT !.shouldRevalidateAfterFix = FALSE], text)
  ELSE u

\* the clear-when-empty effect
ClearEffect(u, text) ==
  [u EXCEPT !.validationResult = ClearedWhenBlank(text, @)]

\* the effects run after a render in which the message changed to `text`
AfterMessageChange(u, text) ==
  ClearEffect(RevalidateEffect(RealTimeEffect(u, text), text), text)

\* the nonce and the clock a fix applied from the component reads
UiNonce == <<"n16">>
UiNow == 10

\* [...errors, ...warnings, ...suggestions]
AllErrors(result) == result.errors \o result.warnings \o result.suggestions

\* allErrors.filter(error => error.fixable)
RECURSIVE FixableErrors(_)
FixableErrors(allErrors) ==
  IF allErrors = <<>> THEN <<>>
  ELSE IF allErrors[1].fixable
       THEN <<allErrors[1]>> \o FixableErrors(Tail(allErrors))
       ELSE FixableErrors(Tail(allErrors))

\* one turn of the loop of handleApplyAllFixes, `r` being what applyFieldFix
\* did on acc.text
FixTurn(acc, r) ==
  IF r.threw THEN [acc EXCEPT !.threw = TRUE]
  ELSE IF r.text # acc.text THEN [text |-> r.text, hasChanges |-> TRUE, threw |-> FALSE]
  ELSE acc

\* the loop of handleApplyAllFixes from its k-th turn on;
\* acc = [text: currentMessage, hasChanges, threw: a call has thrown, which
\* ends the handler]
RECURSIVE ApplyFixes(_, _, _)
ApplyFixes(fixableErrors, k, acc) ==
  IF k > Len(fixableErrors) \/ acc.threw THEN acc
  ELSE ApplyFixes(fixableErrors, k + 1,
         FixTurn(acc, applyFieldFix(acc.text, fixableErrors[k], UiNonce, UiNow)))

\* setMessage(text); setIsValidating(true); setShouldRevalidateAfterFix(true),
\* and the effects of the render that follows
AfterFix(u, old, text) ==
  IF text # old
  THEN AfterMessageChange([u EXCEPT !.isValidating = TRUE,
                                    !.shouldRevalidateAfterFix = TRUE], text)
  ELSE ClearEffect(RevalidateEffect([u EXCEPT !.isValidating = TRUE,
                                              !.shouldRevalidateAfterFix = TRUE],
                                    text), text)

InitUI ==
  /\ message \in UiTexts
  /\ original = message
  /\ ops = <<>>
  /\ error = NoError
  /\ threw = FALSE
  /\ errors = <<>>
  /\ fields = NoFields
  /\ given = NoFields
  /\ target = "none"
  /\ ui = NoUi

\* onChange of the text area: setMessage(e.target.value)
SetMessage ==
  /\ Len(ops) < MaxCalls
  /\ \E text \in UiTexts :
       /\ text # message
       /\ message' = text
       /\ ui' = AfterMessageChange(ui, text)
  /\ ops' = Append(ops, "setMessage")
  /\ UNCHANGED <<original, error, threw, errors, fields, given, target>>

\* handleClear
HandleClear ==
  /\ Len(ops) < MaxCalls
  /\ ~Blank(message)
  /\ message' = <<>>
  /\ ui' = AfterMessageChange([ui EXCEPT !.validationResult = Undefined], <<>>)
  /\ ops' = Append(ops, "handleClear")
  /\ UNCHANGED <<original, error, threw, errors, fields, given, target>>

\* onChange of the real-time validation checkbox
SetRealTimeValidation ==
  /\ Len(ops) < MaxCalls
  /\ ui' = RealTimeEffect([ui EXCEPT !.realTimeValidation = ~@], message)
  /\ ops' = Append(ops, "setRealTimeValidation")
  /\ UNCHANGED <<message, original, error, threw, errors, fields, given, target>>

\* handleValidate, from the Validate button, up to its await
HandleValidate ==
  /\ Len(ops) < MaxCalls
  /\ ~Blank(message)
  /\ ~ui.isValidating
  /\ ui' = StartValidate(ui, message)
  /\ ops' = Append(ops, "handleValidate")
  /\ UNCHANGED <<message, original, error, threw, errors, fields, given, target>>

\* the debounce timer of the real-time validation effect fires: handleValidate
\* of the render that set it, up to its await
TimerFires ==
  /\ ui.timer.def
  /\ ui' = StartValidate([ui EXCEPT !.timer = Undefined], ui.timer.v)
  /\ UNCHANGED <<message, original, ops, error, threw, errors, fields, given, target>>

\* handleValidate after its await: ValidationEngine.validate returns
ValidateReturns ==
  /\ ui.inflight # <<>>
  /\ threw' = FALSE
  /\ ops' = Append(ops, "validate")
  /\ UNCHANGED <<message, original, error, errors, fields, given, target>>
  /\ \E found \in ValidatorFindings :
       ui' = ClearEffect([ui EXCEPT
                            !.validationResult = Def(validate(Head(ui.inflight), found)),
                            !.isValidating = FALSE,
                            !.inflight = Tail(@)],
                         message)

\* handleValidate after its await: ValidationEngine.validate throws
ValidateThrows ==
  /\ ui.inflight # <<>>
  /\ ui' = ClearEffect([ui EXCEPT
                          !.validationResult = Def(SyntheticResult(Head(ui.inflight))),
                          !.isValidating = FALSE,
                          !.inflight = Tail(@)],
                       message)
  /\ threw' = TRUE
  /\ ops' = Append(ops, "validate")
  /\ UNCHANGED <<message, original, error, errors, fields, given, target>>

\* handleApplyFix(error), from the fix button of a fixable diagnostic of the
\* result shown; a call of applyFieldFix that throws ends the handler
HandleApplyFix ==
  /\ Len(ops) < MaxCalls
  /\ ui.validationResult.def
  /\ \E k \in 1..Len(FixableErrors(AllErrors(ui.validationResult.v))) :
       LET r == applyFieldFix(message, FixableErrors(AllErrors(ui.validationResult.v))[k],
                              UiNonce, UiNow)
       IN  /\ error' = [code |-> FixableErrors(AllErrors(ui.validationResult.v))[k].code,
                        field |-> FixableErrors(AllErrors(ui.validationResult.v))[k].field]
           /\ threw' = r.threw
           /\ message' = r.text
           /\ ui' = IF r.threw \/ r.text = message THEN ui ELSE AfterFix(ui, message, r.text)
  /\ original' = message
  /\ ops' = Append(ops, "handleApplyFix")
  /\ UNCHANGED <<errors, fields, given, target>>

\* handleApplyAllFixes
HandleApplyAllFixes ==
  /\ Len(ops) < MaxCalls
  /\ ui.validationResult.def
  /\ LET done == ApplyFixes(FixableErrors(AllErrors(ui.validationResult.v)), 1,
                            [text |-> message, hasChanges |-> FALSE, threw |-> FALSE])
     IN  /\ threw' = done.threw
         /\ message' = IF done.threw \/ ~done.hasChanges THEN message ELSE done.text
         /\ ui' = IF done.threw \/ ~done.hasChanges THEN ui
                  ELSE AfterFix(ui, message, done.text)
  /\ original' = message
  /\ ops' = Append(ops, "handleApplyAllFixes")
  /\ UNCHANGED <<error, errors, fields, given, target>>

NextUI ==
  \/ SetMessage
  \/ HandleClear
  \/ SetRealTimeValidation
  \/ HandleValidate
  \/ TimerFires
  \/ ValidateReturns
  \/ ValidateThrows
  \/ HandleApplyFix
  \/ HandleApplyAllFixes

SpecUI == InitUI /\ [][NextUI]_vars

\* the timers the component has set fire: the debounce timer, and the timer
\* each handleValidate awaits
SpecUILive ==
  /\ SpecUI
  /\ WF_vars(TimerFires)
  /\ WF_vars(ValidateThrows \/ ValidateReturns)

----------------------------------------------------------------------------
(* Properties *)

LastOp == IF ops = <<>> THEN "none" ELSE ops[Len(ops)]

\* the codes with 'LINE_BREAK' or 'EXTRA' in them
IsLineBreakCode(code) ==
  code \in {"EXTRA_LINE_BREAK_HEADER_ADDRESS", "EXTRA_LINE_BREAKS_BEFORE_URI",
            "EXTRA_LINE_BREAKS_BETWEEN_FIELDS", "EXTRA_LINE_BREAKS_BEFORE_OPTIONAL_FIELD",
            "MISSING_LINE_BREAK_ADDRESS_STATEMENT", "MISSING_LINE_BREAK_STATEMENT_URI",
            "MISSING_LINE_BREAK_NO_STATEMENT"}

\* the field a repair code is about
CodeField(code) ==
  CASE code \in {"ADDRESS_NOT_CHECKSUM", "ADDRESS_INVALID_FORMAT"} -> "address"
    [] code \in {"VERSION_REQUIRED", "VERSION_INVALID"} -> "version"
    [] code \in {"ISSUED_AT_REQUIRED", "ISSUED_AT_INVALID_FORMAT"} -> "issuedAt"
    [] code \in {"EXPIRATION_TIME_INVALID_FORMAT", "SECURITY_NO_EXPIRATION"} ->
         "expirationTime"
    [] code \in {"NONCE_REQUIRED", "NONCE_TOO_SHORT", "SECURITY_SHORT_NONCE",
                 "NONCE_WEAK_ENTROPY", "SECURITY_WEAK_NONCE_PATTERN",
                 "SECURITY_LOW_NONCE_COMPLEXITY"} -> "nonce"
    [] code = "URI_INSECURE_SCHEME" -> "uri"
    [] code = "STATEMENT_LINE_BREAKS" -> "statement"
    [] OTHER -> "none"

\* line k (1-based) of `old` is still there in `new`, which has as many
\* lines as `old` or one line more
LineKept(old, new, k) ==
  \/ Len(new) = Len(old) /\ new[k] = old[k]
  \/ Len(new) = Len(old) + 1 /\ (new[k] = old[k] \/ new[k + 1] = old[k])

\* C1: a fix for a non-structural diagnostic on field F changes no line that
\* the parser assigns to another field, and adds at most the one line of a
\* new Expiration Time; it removes none.
TargetedReplacement ==
  (/\ ops = <<"applyFieldFix">>
   /\ ~threw
   /\ CodeField(error.code) # "none"
   /\ error.field = CodeField(error.code))
  => \A Y \in DOMAIN parse(original).at \ {error.field} :
       LineKept(Split(original), Split(message), parse(original).at[Y] + 1)

\* C2: fixLineBreaks applied to its own output returns that output.
IdempotentRepair ==
  ops = <<"fixLineBreaks", "fixLineBreaks">> => message = original

\* the conditions under which a field map is written and read back unchanged
SingleLine(s) == \A k \in 1..Len(s) : s[k] # NL

Canonical(f) ==
  /\ \A n \in DOMAIN f \ {"resources"} : f[n] # <<>> /\ SingleLine(f[n])
  /\ Trim(f["address"]) = f["address"]
  /\ "statement" \in DOMAIN f => ~StartsWith(f["statement"], <<"URI:">>)
  /\ "resources" \in DOMAIN f =>
       /\ f["resources"] # <<>>
       /\ \A k \in 1..Len(f["resources"]) : SingleLine(f["resources"][k])

\* C3, as claimed: every complete field map is read back as it was written.
RoundTripOfEveryFieldMap ==
  ops = <<"generateMessage", "parse">> => fields = given /\ errors = <<>>

\* C3, amended: a complete field map is read back as it was written, with no
\* parse error, when every value set is non-empty and holds no line break,
\* the address has no white space around it, the statement does not start
\* with 'URI:' and the resources list, if set, is not empty.
RoundTripOfCanonicalFieldMap ==
  (ops = <<"generateMessage", "parse">> /\ Canonical(given))
  => fields = given /\ errors = <<>>

RoundTripWitness ==
  /\ ops = <<"generateMessage", "parse">>
  /\ Canonical(given)
  /\ {"statement", "requestId", "resources"} \subseteq DOMAIN given
  /\ Len(given["resources"]) = 2
  /\ fields = given

\* C4: after a fix for a reported line-break diagnostic changed the text,
\* validateLineBreaks of the new text does not report that code again.
FixClearsItsCode ==
  (/\ ops = <<"validateLineBreaks", "applyFieldFix", "validateLineBreaks">>
   /\ message # original)
  => \A k \in 1..Len(errors) : errors[k].code # error.code

\* C5: applyFieldFix never throws.
FixNeverRaises ==
  ops = <<"applyFieldFix">> => ~threw

\* the case labels of the switch of applyFieldFix
SwitchCodes ==
  {"ADDRESS_NOT_CHECKSUM", "ADDRESS_INVALID_FORMAT", "VERSION_REQUIRED",
   "VERSION_INVALID", "ISSUED_AT_REQUIRED", "ISSUED_AT_INVALID_FORMAT",
   "EXPIRATION_TIME_INVALID_FORMAT", "NONCE_REQUIRED", "NONCE_TOO_SHORT",
   "SECURITY_SHORT_NONCE", "NONCE_WEAK_ENTROPY", "SECURITY_WEAK_NONCE_PATTERN",
   "SECURITY_LOW_NONCE_COMPLEXITY", "URI_INSECURE_SCHEME", "STATEMENT_LINE_BREAKS",
   "SECURITY_NO_EXPIRATION", "EXTRA_LINE_BREAK_HEADER_ADDRESS",
   "EXTRA_LINE_BREAKS_BEFORE_URI", "EXTRA_LINE_BREAKS_BETWEEN_FIELDS",
   "MISSING_LINE_BREAK_ADDRESS_STATEMENT", "MISSING_LINE_BREAK_STATEMENT_URI",
   "TRAILING_WHITESPACE", "TOO_MANY_CONSECUTIVE_EMPTY_LINES"}

\* the case labels of the switch of replaceField
ReplaceableFields ==
  {"domain", "address", "statement", "uri", "version", "chainId", "nonce",
   "issuedAt", "expirationTime", "notBefore", "requestId"}

\* C6: applyFieldFix with a code the switch has no case for, and replaceField
\* with a field name it has no case for, return the text they were given.
UnknownCodeIsNoOp ==
  /\ (ops = <<"applyFieldFix">> /\ error.code \notin SwitchCodes)
     => ~threw /\ message = original
  /\ (ops = <<"replaceField">> /\ target \notin ReplaceableFields)
     => message = original

\* an unknown code left alone a text whose spacing fixLineBreaks would change
UnknownCodeWitness ==
  /\ ops = <<"applyFieldFix">>
  /\ error.code = "DOMAIN_INVALID_FORMAT"
  /\ message = original
  /\ fixLineBreaks(message) # message
  /\ Len(Split(message)) > 4

\* the parse error the claim names for each REQUIRED field
MissingFieldCode(field) ==
  CASE field = "domain" -> "INVALID_HEADER"
    [] field = "address" -> "MISSING_ADDRESS"
    [] field = "uri" -> "MISSING_URI"
    [] field = "version" -> "MISSING_VERSION"
    [] field = "chainId" -> "MISSING_CHAINID"
    [] field = "nonce" -> "MISSING_NONCE"
    [] field = "issuedAt" -> "MISSING_ISSUEDAT"

\* C7: parse returns for every text, and each REQUIRED field it did not set
\* has its parse error.
ParseReportsEveryMissingField ==
  LastOp = "parse"
  => /\ \A k \in 1..Len(REQUIRED_FIELDS) :
          REQUIRED_FIELDS[k] \notin DOMAIN fields
          => \E j \in 1..Len(errors) :
               errors[j].code = MissingFieldCode(REQUIRED_FIELDS[k])
     /\ \A j \in 1..Len(errors) : errors[j].code # "PARSE_ERROR"

\* the empty string: no field set, seven parse errors
ParseEmptyWitness ==
  /\ ops = <<"parse">>
  /\ message = <<>>
  /\ DOMAIN fields = {}
  /\ Len(errors) = 7

\* the structural and whitespace codes of the claim
StructuralCodes ==
  {"EXTRA_LINE_BREAK_HEADER_ADDRESS", "EXTRA_LINE_BREAKS_BEFORE_URI",
   "EXTRA_LINE_BREAKS_BETWEEN_FIELDS", "EXTRA_LINE_BREAKS_BEFORE_OPTIONAL_FIELD",
   "MISSING_LINE_BREAK_ADDRESS_STATEMENT", "MISSING_LINE_BREAK_STATEMENT_URI",
   "MISSING_LINE_BREAK_NO_STATEMENT", "TRAILING_WHITESPACE",
   "TOO_MANY_CONSECUTIVE_EMPTY_LINES"}

\* C8: for each structural or whitespace code, applyFieldFix returns what
\* fixLineBreaks returns.
StructuralCodesDelegate ==
  (ops = <<"applyFieldFix">> /\ error.code \in StructuralCodes)
  => ~threw /\ message = fixLineBreaks(original)

\* header, address, n blank lines, the five required lines, no statement
NoStatementText(n) == JoinLines(Layout(0, n, <<>>, 0, 0, 0, <<>>))

\* C9: with exactly two blank lines between address and URI and no
\* statement, validateLineBreaks reports no line-break diagnostic.
TwoBlankLinesAccepted ==
  (ops = <<"validateLineBreaks">> /\ message = NoStatementText(2))
  => \A k \in 1..Len(errors) : ~IsLineBreakCode(errors[k].code)

\* C10: with no statement and n blank lines between address and URI,
\* n < 2 is reported as MISSING_LINE_BREAK_NO_STATEMENT and n > 2 as
\* EXTRA_LINE_BREAKS_BEFORE_URI, both saying that 2 were expected.
OtherBlankLineCountsRejected ==
  \A n \in 0..(2 * MaxGap) :
    (ops = <<"validateLineBreaks">> /\ message = NoStatementText(n))
    => /\ n < 2 => \E k \in 1..Len(errors) :
                     /\ errors[k].code = "MISSING_LINE_BREAK_NO_STATEMENT"
                     /\ errors[k].message.expected = 2
       /\ n > 2 => \E k \in 1..Len(errors) :
                     /\ errors[k].code = "EXTRA_LINE_BREAKS_BEFORE_URI"
                     /\ errors[k].message.expected = 2

\* a line of an OPTIONAL field, of a REQUIRED field
IsOptionalLine(line) ==
  \/ StartsWith(line, PrefixExpirationTime)
  \/ StartsWith(line, PrefixNotBefore)
  \/ StartsWith(line, PrefixRequestId)

IsRequiredLine(line) ==
  \/ StartsWith(line, PrefixURI)
  \/ StartsWith(line, PrefixVersion)
  \/ StartsWith(line, PrefixChainId)
  \/ StartsWith(line, PrefixNonce)
  \/ StartsWith(line, PrefixIssuedAt)

\* line k is an optional field line, j..k-1 are blank lines, one at least,
\* and line j-1 is a field line
BlankLinesBeforeOptional(lines, j, k) ==
  /\ 1 < j /\ j < k /\ k <= Len(lines)
  /\ IsOptionalLine(lines[k])
  /\ \A i \in j..(k - 1) : lines[i] = <<>>
  /\ IsRequiredLine(lines[j - 1]) \/ IsOptionalLine(lines[j - 1])

\* C11: blank lines between a field line and the optional field line after
\* it are reported as a fixable EXTRA_LINE_BREAKS_BEFORE_OPTIONAL_FIELD, and
\* not as EXTRA_LINE_BREAKS_BETWEEN_FIELDS.
BlankBeforeOptionalFieldReported ==
  ops = <<"validateLineBreaks">>
  => \A j, k \in 1..Len(Split(message)) :
       BlankLinesBeforeOptional(Split(message), j, k)
       => /\ \E e \in 1..Len(errors) :
               /\ errors[e].code = "EXTRA_LINE_BREAKS_BEFORE_OPTIONAL_FIELD"
               /\ errors[e].fixable
          /\ \A e \in 1..Len(errors) :
               errors[e].code = "EXTRA_LINE_BREAKS_BETWEEN_FIELDS"
               => errors[e].line \notin j..k

\* header, address, blank, statement, blank, the five required lines, g
\* blank lines, Expiration Time
WithStatementText(g) ==
  JoinLines(Layout(0, 1, <<StatementLine>>, 1, 0, g, <<ExpirationTimeLine>>))

\* C12: of a well-formed message with statement and one blank line between
\* Issued At and Expiration Time, fixLineBreaks removes that blank line and
\* nothing else.
FixRemovesBlankBeforeExpiration ==
  (ops = <<"fixLineBreaks">> /\ original = WithStatementText(1))
  => message = WithStatementText(0)

FixRemovesBlankWitness ==
  /\ ops = <<"fixLineBreaks">>
  /\ original = WithStatementText(1)
  /\ message # original
  /\ Len(Split(message)) = Len(Split(original)) - 1
  /\ Split(message)[3] = <<>> /\ Split(message)[5] = <<>>

\* header, address, g1 blank lines, statement, g2 blank lines, the five
\* required lines
StatementGapsText(g1, g2) ==
  JoinLines(Layout(0, g1, <<StatementLine>>, g2, 0, 0, <<>>))

\* C13: with no statement, fixLineBreaks leaves exactly two blank lines
\* between address and URI, whatever their number was, and its output has
\* no line-break diagnostic; with a statement it leaves exactly one blank
\* line before and one after the statement.
FixNormalisesGaps ==
  /\ \A n \in 0..(2 * MaxGap) :
       /\ (ops = <<"fixLineBreaks">> /\ original = NoStatementText(n))
          => message = NoStatementText(2)
       /\ (ops = <<"fixLineBreaks", "validateLineBreaks">>
           /\ original = NoStatementText(n))
          => \A k \in 1..Len(errors) : ~IsLineBreakCode(errors[k].code)
  /\ \A g1, g2 \in 0..MaxGap :
       (ops = <<"fixLineBreaks">> /\ original = StatementGapsText(g1, g2))
       => message = StatementGapsText(1, 1)

\* C14: generateMessage writes two blank lines between the address line and
\* the URI line when the field map has no statement, and one blank line
\* before and one after the statement line when it has one.
GeneratedSpacing ==
  (ops = <<"generateMessage">> /\ Canonical(given))
  => LET ls == Split(message)
     IN  /\ ls[2] = given["address"]
         /\ IF "statement" \in DOMAIN given
            THEN /\ ls[3] = <<>>
                 /\ ls[4] = given["statement"]
                 /\ ls[5] = <<>>
                 /\ ls[6] = PrefixURI \o given["uri"]
            ELSE /\ ls[3] = <<>>
                 /\ ls[4] = <<>>
                 /\ ls[5] = PrefixURI \o given["uri"]

\* a field map whose values hold no line break and whose statement is not
\* itself an address
Plain(f) ==
  /\ \A n \in DOMAIN f \ {"resources"} : SingleLine(f[n])
  /\ "resources" \in DOMAIN f
     => \A k \in 1..Len(f["resources"]) : SingleLine(f["resources"][k])
  /\ "statement" \in DOMAIN f => ~AddressPattern(Trim(f["statement"]))

ParseAcceptsTwoBlankLines ==
  (ops = <<"parse">> /\ message = NoStatementText(2))
  => /\ fields = [domain |-> <<"w">>, address |-> <<"0x", "hex40">>,
                  uri |-> <<"https://", "w">>, version |-> <<"1">>,
                  chainId |-> <<"1">>, nonce |-> <<"w">>, issuedAt |-> <<"T+0">>]
     /\ errors = <<>>
     /\ parse(message).isValid

\* tokens made of characters of [a-zA-Z0-9] only
AlphanumericTokens == {"n16", "w", "1", "0x", "hex40", "HEX40ck", "new", "undefined"}

\* `Nonce: ` followed by at least 16 characters of [a-zA-Z0-9]
IsSecureNonceLine(line) ==
  /\ StartsWith(line, PrefixNonce)
  /\ StringLength(Substring(line, Len(PrefixNonce))) >= 16
  /\ \A k \in (Len(PrefixNonce) + 1)..Len(line) : line[k] \in AlphanumericTokens

HasNonceLine(lines) == \E k \in 1..Len(lines) : StartsWith(lines[k], PrefixNonce)

\* C17: a nonce fix on a text with a `Nonce: ` line keeps the number of
\* lines, changes one line only, and that line is the Nonce line (the line
\* the parser reads the nonce from, when it reads one), now a secure one.
NonceFixRewritesNonceLine ==
  (/\ ops = <<"applyFieldFix">>
   /\ error.code \in {"NONCE_REQUIRED", "NONCE_TOO_SHORT", "SECURITY_SHORT_NONCE",
                      "NONCE_WEAK_ENTROPY", "SECURITY_WEAK_NONCE_PATTERN",
                      "SECURITY_LOW_NONCE_COMPLEXITY"}
   /\ error.field = "nonce"
   /\ HasNonceLine(Split(original)))
  => LET old == Split(original)
         new == Split(message)
         at == parse(original).at
     IN  /\ ~threw
         /\ Len(new) = Len(old)
         /\ \E k \in 1..Len(new) :
              /\ IsSecureNonceLine(new[k])
              /\ \A j \in 1..Len(new) : j # k => new[j] = old[j]
              /\ "nonce" \in DOMAIN at => k = at["nonce"] + 1

\* 40 hexadecimal digits without the 0x prefix
IsBareAddress(a) == a \in {<<"hex40">>, <<"HEX40ck">>}

\* C18: on a text whose header and address line the parser reads, the fix
\* for ADDRESS_INVALID_FORMAT puts 0x before an address of 40 hexadecimal
\* digits and changes no other line, and returns the text as it was when
\* the address is not 40 hexadecimal digits.
AddressFormatFix ==
  (/\ ops = <<"applyFieldFix">>
   /\ error.code = "ADDRESS_INVALID_FORMAT"
   /\ error.field = "address"
   /\ {"domain", "address"} \subseteq DOMAIN parse(original).fields)
  => LET old == Split(original)
         new == Split(message)
         k == parse(original).at["address"] + 1
         a == parse(original).fields["address"]
     IN  /\ ~threw
         /\ IsBareAddress(a)
            => /\ Len(new) = Len(old)
               /\ new[k] = <<"0x">> \o a
               /\ \A j \in 1..Len(new) : j # k => new[j] = old[j]
         /\ ~AddressPattern(a) => message = original

\* the expiration the claim names: ten minutes after issuedAt when the
\* parser read one that Date can parse, ten minutes after `now` otherwise
ClaimedExpiration(text, now) ==
  LET f == parse(text).fields
  IN  IF "issuedAt" \in DOMAIN f /\ DateGetTime(f["issuedAt"]) # NaN
      THEN DateGetTime(f["issuedAt"]) + 10
      ELSE now + 10

\* C19: the fix for SECURITY_NO_EXPIRATION on a text without an Expiration
\* Time line adds exactly one line, `Expiration Time: ` with the claimed
\* instant, and keeps every line of the text, in order.
ExpirationSynthesised ==
  (/\ ops = <<"applyFieldFix">>
   /\ error.code = "SECURITY_NO_EXPIRATION"
   /\ \A k \in 1..Len(Split(original)) :
        ~StartsWith(Split(original)[k], PrefixExpirationTime))
  => /\ ~threw
     /\ \E k \in 1..Len(Split(message)) :
          /\ Split(message)[k]
               = PrefixExpirationTime \o toISOString(ClaimedExpiration(original, 10))
          /\ RemoveAt(Split(message), k) = Split(original)

\* C20: a validation result the component holds is valid exactly when its
\* errors are none, whatever its warnings and suggestions.
ResultValidIffNoErrors ==
  ui.validationResult.def
  => (ui.validationResult.v.isValid <=> ui.validationResult.v.errors = <<>>)

\* the component holds the result built for a validation that threw
SyntheticResultWitness ==
  /\ ui.validationResult.def
  /\ threw
  /\ ~ui.validationResult.v.isValid
  /\ Len(ui.validationResult.v.errors) = 1
  /\ ui.validationResult.v.errors[1].code = "VALIDATION_ERROR"
  /\ ui.validationResult.v.originalMessage # message

\* the codes of the parser's missing-field diagnostics
MissingFieldCodes ==
  {"MISSING_ADDRESS", "MISSING_URI", "MISSING_VERSION", "MISSING_CHAINID",
   "MISSING_NONCE", "MISSING_ISSUEDAT"}

\* the result `r` was built by validate on a text for which the parser
\* reports a missing field and the structural validator a line-break code
MissingFieldExplained(r) ==
  /\ r.errors = <<>> \/ r.errors[1].code # "VALIDATION_ERROR"
  /\ \E j \in 1..Len(parse(r.originalMessage).parseErrors) :
       parse(r.originalMessage).parseErrors[j].code \in MissingFieldCodes
  /\ \E k \in 1..Len(validateLineBreaks(r.originalMessage)) :
       IsLineBreakCode(validateLineBreaks(r.originalMessage)[k].code)

\* in `r`, the line-break diagnostics are ahead of every other error and no
\* missing-field diagnostic is left
StructuralAhead(r) ==
  /\ r.errors # <<>>
  /\ IsLineBreakCode(r.errors[1].code)
  /\ \A a \in 1..Len(r.errors) : \A b \in a..Len(r.errors) :
       IsLineBreakCode(r.errors[b].code) => IsLineBreakCode(r.errors[a].code)
  /\ \A n \in 1..Len(r.errors) : r.errors[n].code \notin MissingFieldCodes

RECURSIVE PositionalErrors(_, _, _)
PositionalErrors(lines, k, i) ==
  IF k > Len(fieldParsers) THEN <<>>
  ELSE IF i < Len(lines) /\ StartsWith(lines[i + 1], fieldParsers[k].prefix)
       THEN PositionalErrors(lines, k + 1, i + 1)
       ELSE <<[field |-> fieldParsers[k].field, line |-> i + 1,
               code |-> MissingFieldCode(fieldParsers[k].field)]>>
            \o PositionalErrors(lines, k + 1, i)

\* the cursor (0-based) at which parse starts the required fields of `text`
RequiredCursor(text) ==
  ParseStatement(Split(text), SkipEmptyLine(Split(text),
    ParseAddress(Split(text), ParseHeader(Split(text))))).i

\* field, line and code of the errors of `errs` about the five required lines
RECURSIVE RequiredErrors(_)
RequiredErrors(errs) ==
  IF errs = <<>> THEN <<>>
  ELSE IF errs[1].field \in {"uri", "version", "chainId", "nonce", "issuedAt"}
       THEN <<[field |-> errs[1].field, line |-> errs[1].line, code |-> errs[1].code]>>
            \o RequiredErrors(Tail(errs))
       ELSE RequiredErrors(Tail(errs))

\* parse reports one MISSING_<FIELD> error per required prefix that the line
\* at the cursor does not start with, and tests the same line against the
\* next prefix
PositionalParsing ==
  (LastOp = "parse" /\ message # <<>>)
  => RequiredErrors(errors)
       = PositionalErrors(Split(message), 1, RequiredCursor(message))

\* the fields of the well-formed message whose statement lines are `stmt`,
\* but for `field`
FieldsBut(stmt, field) ==
  [x \in DOMAIN parse(JoinLines(FullMessage(stmt))).fields \ {field}
     |-> parse(JoinLines(FullMessage(stmt))).fields[x]]

\* parse of the well-formed message without its j-th required line gave one
\* error, for that field, and every other field
OneErrorFor(stmt, j) ==
  /\ Len(errors) = 1
  /\ errors[1].code = MissingFieldCode(fieldParsers[j].field)
  /\ fields = FieldsBut(stmt, fieldParsers[j].field)

StatementCursor(text) ==
  SkipEmptyLine(Split(text), ParseAddress(Split(text), ParseHeader(Split(text)))).i

\* the line at cursor i of `lines` is non-empty and does not begin `URI: `
IsStatementLine(lines, i) ==
  i < Len(lines) /\ lines[i + 1] # <<>> /\ ~StartsWith(lines[i + 1], PrefixURI)

\* C24: parse takes the line after the address and one optional blank line
\* as the statement exactly when it is non-empty and does not begin with
\* `URI: `, and then consumes it and at most one blank line after it.
StatementRecognised ==
  (LastOp = "parse" /\ message # <<>>)
  => /\ "statement" \in DOMAIN fields
          <=> IsStatementLine(Split(message), StatementCursor(message))
     /\ "statement" \in DOMAIN fields
          => /\ fields["statement"] = Split(message)[StatementCursor(message) + 1]
             /\ RequiredCursor(message)
                  = StatementCursor(message) + 1
                    + (IF /\ StatementCursor(message) + 1 < Len(Split(message))
                          /\ Split(message)[StatementCursor(message) + 2] = <<>>
                       THEN 1 ELSE 0)

\* lines p and q of `lines` are required field lines with no required field
\* line between them
ConsecutiveRequired(lines, p, q) ==
  /\ p < q
  /\ IsRequiredLine(lines[p]) /\ IsRequiredLine(lines[q])
  /\ \A r \in (p + 1)..(q - 1) : ~IsRequiredLine(lines[r])

\* a blank line lies between two consecutive required field lines
BlankBetweenRequired(lines) ==
  \E p \in 1..Len(lines) : \E q \in 1..Len(lines) :
    /\ ConsecutiveRequired(lines, p, q)
    /\ \E r \in (p + 1)..(q - 1) : lines[r] = <<>>

\* C25: validateLineBreaks reports EXTRA_LINE_BREAKS_BETWEEN_FIELDS exactly
\* when a blank line lies between two consecutive required field lines; lines
\* that are not blank between them, or required lines out of order, do not
\* produce the code.
BetweenFieldsIffBlankLine ==
  LastOp = "validateLineBreaks"
  => ((\E k \in 1..Len(errors) : errors[k].code = "EXTRA_LINE_BREAKS_BETWEEN_FIELDS")
      <=> BlankBetweenRequired(Split(message)))

\* the first lines of the runs of more than two consecutive blank lines
LongBlankRuns(lines) ==
  {k \in 1..Len(lines) :
     /\ k + 2 <= Len(lines)
     /\ \A r \in k..(k + 2) : Trim(lines[r]) = <<>>
     /\ k = 1 \/ Trim(lines[k - 1]) # <<>>}

\* the places in `errs` of the TOO_MANY_CONSECUTIVE_EMPTY_LINES diagnostics
TooManyEmptyLines(errs) ==
  {j \in 1..Len(errs) : errs[j].code = "TOO_MANY_CONSECUTIVE_EMPTY_LINES"}

\* C26: validateLineBreaks reports one fixable TOO_MANY_CONSECUTIVE_EMPTY_LINES
\* warning for every run of more than two consecutive blank lines, a run at
\* the start or at the end of the text included.
EveryLongBlankRunReported ==
  LastOp = "validateLineBreaks"
  => /\ Cardinality(TooManyEmptyLines(errors))
          = Cardinality(LongBlankRuns(Split(message)))
     /\ \A j \in TooManyEmptyLines(errors) :
          errors[j].severity = "warning" /\ errors[j].fixable

\* the lines of `lines` that are not empty, in order
RECURSIVE NonBlankLines(_)
NonBlankLines(lines) ==
  IF lines = <<>> THEN <<>>
  ELSE IF lines[1] = <<>> THEN NonBlankLines(Tail(lines))
       ELSE <<lines[1]>> \o NonBlankLines(Tail(lines))

\* the lines of `lines` without their trailing white space
RECURSIVE TrimmedRight(_)
TrimmedRight(lines) ==
  IF lines = <<>> THEN <<>>
  ELSE <<TrimRight(lines[1])>> \o TrimmedRight(Tail(lines))

\* C27: fixLineBreaks keeps the non-blank lines, less their trailing white
\* space, in their order, and leaves no line with trailing white space and
\* no run of more than two blank lines.
FixOnlyTouchesSpacing ==
  LastOp = "fixLineBreaks"
  => /\ NonBlankLines(Split(message)) = NonBlankLines(TrimmedRight(Split(original)))
     /\ \A k \in 1..Len(Split(message)) :
          TrimRight(Split(message)[k]) = Split(message)[k]
     /\ LongBlankRuns(Split(message)) = {}

\* fixLineBreaks has removed trailing white space and a run of more than two
\* blank lines, and kept two non-blank lines or more
FixOnlyTouchesSpacingWitness ==
  /\ ops = <<"fixLineBreaks">>
  /\ LongBlankRuns(Split(original)) # {}
  /\ \E k \in 1..Len(Split(original)) :
       /\ Split(original)[k] # TrimRight(Split(original)[k])
       /\ TrimRight(Split(original)[k]) # <<>>
  /\ Len(NonBlankLines(Split(message))) >= 2
  /\ NonBlankLines(Split(message)) = NonBlankLines(TrimmedRight(Split(original)))

\* C28: fixLineBreaks returns unchanged every text for which
\* validateLineBreaks reports nothing.
FixLeavesCleanTextAlone ==
  (LastOp = "fixLineBreaks" /\ validateLineBreaks(original) = <<>>)
  => message = original

\* `final` is the text after the fixes of `list` from the k-th on, each
\* applied to the text the one before returned, the k-th to `text`
RECURSIVE FixedInTurn(_, _, _, _)
FixedInTurn(list, k, text, final) ==
  IF k > Len(list) THEN final = text
  ELSE \E next \in {applyFieldFix(text, list[k], UiNonce, UiNow).text} :
         FixedInTurn(list, k + 1, next, final)

\* one of the fixes of `list` from the k-th on changes the text it is given
RECURSIVE SomeFixChanges(_, _, _)
SomeFixChanges(list, k, text) ==
  /\ k <= Len(list)
  /\ \E next \in {applyFieldFix(text, list[k], UiNonce, UiNow).text} :
       next # text \/ SomeFixChanges(list, k + 1, next)

\* the fixable diagnostics of the result shown, errors first, then warnings,
\* then suggestions
FixableInOrder ==
  FixableErrors(ui.validationResult.v.errors)
  \o FixableErrors(ui.validationResult.v.warnings)
  \o FixableErrors(ui.validationResult.v.suggestions)

\* C22: handleApplyAllFixes applies the fixable diagnostics in the order
\* errors, warnings, suggestions, each to the text the one before returned;
\* it replaces the message and starts a re-validation if one of the calls
\* changed the text, and does nothing otherwise.
FixAllInTurn ==
  [][ops' = Append(ops, "handleApplyAllFixes")
     => IF SomeFixChanges(FixableInOrder, 1, message)
        THEN /\ FixedInTurn(FixableInOrder, 1, message, message')
             /\ ui'.isValidating
             /\ ui'.inflight = Append(ui.inflight, message')
        ELSE message' = message /\ ui' = ui]_vars

\* the calls that edit the message
EditOps == {"setMessage", "handleClear"}

\* a fix has changed the message and the user has not edited it since
FixChangedMessage ==
  /\ message # original
  /\ \E k \in 1..Len(ops) :
       /\ ops[k] \in {"handleApplyFix", "handleApplyAllFixes"}
       /\ \A j \in (k + 1)..Len(ops) : ops[j] \in {"validate", "handleValidate",
                                                   "setRealTimeValidation"}

\* a validation of the message shown has completed and none is requested
Revalidated ==
  /\ ~ui.isValidating
  /\ ~ui.shouldRevalidateAfterFix
  /\ ui.validationResult.def
  /\ ui.validationResult.v.originalMessage = message

\* C29: once a fix has changed the message, a validation of the fixed
\* message completes unless the user edits the message; and isValidating is
\* never set without a validation in flight.
FixThenRevalidate ==
  /\ [](ui.isValidating => ui.inflight # <<>>)
  /\ FixChangedMessage ~> (Revalidated \/ (ops # <<>> /\ LastOp \in EditOps))

\* the validation a fix started has completed
FixThenRevalidateWitness ==
  /\ Len(ops) >= 2
  /\ ops[Len(ops) - 1] \in {"handleApplyFix", "handleApplyAllFixes"}
  /\ LastOp = "validate"
  /\ message # original
  /\ Revalidated
  /\ ui.inflight = <<>>

\* C30: once the effects of a render have run, a blank message has no
\* validation result, whatever the order of edits, debounce timer and
\* completions of validations started on an earlier text.
BlankMessageHasNoResult == Blank(message) => ~ui.validationResult.def

\* a validation started on a non-blank text has completed after the message
\* became blank, and its result is not kept
BlankMessageHasNoResultWitness ==
  /\ Blank(message)
  /\ Len(ops) >= 2
  /\ LastOp = "validate"
  /\ ops[Len(ops) - 1] = "setMessage"
  /\ ~ui.validationResult.def
  /\ ~ui.isValidating

====
